---- MODULE Spec2Model ----
(***************************************************************************)
(* Model of quflow.integrators.mhd.magmp_fixedpoint (the magnetic midpoint *)
(* fixed-point integrator).                                                *)
(*                                                                         *)
(* Arrays are real (dtype float64) with integer entries, so that every     *)
(* product, sum and norm of the code is computed exactly.  A matrix is a   *)
(* sequence of rows; an array of shape (B,N,N) is a sequence of matrices   *)
(* and the state, of shape (2,B,N,N), a sequence of two such arrays        *)
(* (component 1 is W = state[0], component 2 is Theta = state[1]).  An     *)
(* unbatched state (2,N,N) is kept with a single system and batched=FALSE. *)
(* The step size is an even integer, so stepsize/2.0 is exact.             *)
(***************************************************************************)
EXTENDS Integers, Sequences, FiniteSets, TLC

\* ------------------------------------------------------------- bounds
MaxSteps == 2
MaxIt == 3
MaxBatch == 2
\* the matrices are N x N
N == 2

\* -------------------------------------------------- program constants
Idx == 1..N
Comps == 1..2
Inf == -1
SqrtEpsInv == 67108864
hb == 1

\* ------------------------------------------------------- matrix algebra
Abs(x) == IF x < 0 THEN -x ELSE x

Max2(a, b) == IF a >= b THEN a ELSE b

RECURSIVE SumTo(_, _)
SumTo(f, n) == IF n = 0 THEN 0 ELSE f[n] + SumTo(f, n - 1)

RECURSIVE MaxTo(_, _)
MaxTo(f, n) == IF n = 1 THEN f[1] ELSE Max2(f[n], MaxTo(f, n - 1))

\* TLC keeps a function constructor unevaluated and evaluates its body anew
\* at every application; Tup turns a function on 1..n into the sequence of
\* its values, and Mat does so for a matrix and its rows
Tup(f) == f \o << >>

Mat(A) == Tup([r \in DOMAIN A |-> Tup(A[r])])

Zero == Mat([r \in Idx |-> [c \in Idx |-> 0]])

MatAdd(A, B) == Mat([r \in Idx |-> [c \in Idx |-> A[r][c] + B[r][c]]])

MatSub(A, B) == Mat([r \in Idx |-> [c \in Idx |-> A[r][c] - B[r][c]]])

MatScale(a, A) == Mat([r \in Idx |-> [c \in Idx |-> a * A[r][c]]])

MatMul(A, B) == Mat([r \in Idx |-> [c \in Idx |-> SumTo([m \in Idx |-> A[r][m] * B[m][c]], N)]])

\* X^dagger: the transpose; conj() leaves a real entry as it is
Dagger(A) == Mat([r \in Idx |-> [c \in Idx |-> A[c][r]]])

\* conj_subtract_(a, out): out = a - a^dagger
conj_subtract_(A) == MatSub(A, Dagger(A))

\* np.linalg.norm(X, np.inf): the largest absolute row sum
norm_inf(A) == MaxTo(Tup([r \in Idx |-> SumTo([c \in Idx |-> Abs(A[r][c])], N)]), N)

\* scipy.linalg.norm(X, ord=np.inf, axis=(-1, -2)): the last axis is the row
\* axis, so the sum runs over the first matrix index
norm_axes(A) == MaxTo(Tup([c \in Idx |-> SumTo([r \in Idx |-> Abs(A[r][c])], N)]), N)

IsSkew(A) == \A r \in Idx : \A c \in Idx : A[r][c] = -A[c][r]

\* --------------------------------------------- arrays over the systems
Sys(n) == 1..n

ArrZero(n) == Tup([s \in Sys(n) |-> Zero])

ArrAdd(X, Y) == Tup([s \in DOMAIN X |-> MatAdd(X[s], Y[s])])

ArrSub(X, Y) == Tup([s \in DOMAIN X |-> MatSub(X[s], Y[s])])

ArrScale(a, X) == Tup([s \in DOMAIN X |-> MatScale(a, X[s])])

ArrMul(X, Y) == Tup([s \in DOMAIN X |-> MatMul(X[s], Y[s])])

ArrConjSub(X) == Tup([s \in DOMAIN X |-> conj_subtract_(X[s])])

\* X.T.conj() of line 170.  .T reverses ALL the axes: for a matrix it is the
\* transpose, for a (B,N,N) array the element [s,r,c] of the result is
\* X[c,r,s], an array of shape (N,N,B).
TConj(X, batched) ==
    IF batched
    THEN Tup([s \in Idx |-> Tup([r \in Idx |-> Tup([c \in DOMAIN X |-> X[c][r][s]])])])
    ELSE Tup([s \in DOMAIN X |-> Dagger(X[s])])

\* whether the in-place "dstate[0,:,:] -= X.T.conj()" broadcasts: shapes
\* (B,N,N) and (N,N,B) fit the output (B,N,N) only when B = N
TFits(batched, n) == (~batched) \/ n = N

StZero(n) == Tup([c \in Comps |-> ArrZero(n)])

StAdd(X, Y) == Tup([c \in Comps |-> ArrAdd(X[c], Y[c])])

StScale(a, X) == Tup([c \in Comps |-> ArrScale(a, X[c])])

StSkew(X) == \A c \in Comps : \A s \in DOMAIN X[c] : IsSkew(X[c][s])

\* ----------------------------------------------------------- the inputs
\* skew-symmetric S(a) = [[0, a], [-a, 0]]
S(a) == Mat([r \in Idx |-> [c \in Idx |-> IF r < c THEN a ELSE IF r > c THEN -a ELSE 0]])

\* E(r0, c0, a): a in entry (r0, c0), zero elsewhere
E(r0, c0, a) == Mat([r \in Idx |-> [c \in Idx |-> IF r = r0 /\ c = c0 THEN a ELSE 0]])

\* what a call of the Hamiltonian may return for one system, <<P, B>>: the
\* code asks nothing of P and B, and neither pair is skew
HamP == << MatAdd(E(1, 1, 1), E(1, 2, 1)), Zero >>

HamB == << Zero, E(1, 1, 1) >>

\* the Hamiltonians a caller passes: one that answers HamP whatever it is
\* asked ("P"), one that answers HamB ("B"), one that answers HamP for the
\* first system of a batch and HamB for the others ("PB"), and one whose
\* answer varies from call to call ("varying"): between "P" and "B" for a
\* single system, between "P" and "PB" for a batch
Answer(kind, n) ==
    Tup([s \in Sys(n) |-> IF kind = "P" \/ (kind = "PB" /\ s = 1) THEN HamP ELSE HamB])

HamOut(a) ==
    IF a.hamiltonian = "varying"
    THEN { Answer(kind, a.nsys) : kind \in {"P", IF a.batched THEN "PB" ELSE "B"} }
    ELSE { Answer(a.hamiltonian, a.nsys) }

\* what a call of the forcing may return (the same matrix in every block)
ForceOut == { E(1, 1, 1) }

DefaultState(n) == Tup([c \in Comps |-> Tup([s \in Sys(n) |-> S(s + c - 1)])])

OtherState(n) == Tup([c \in Comps |-> Tup([s \in Sys(n) |-> S((c - 1) * s)])])

Tols == { [auto |-> TRUE, val |-> 0], [auto |-> FALSE, val |-> -1],
          [auto |-> FALSE, val |-> 3] }

NoTime == << >>

NoStats == [given |-> FALSE, map |-> << >>]

EmptyStats == [given |-> TRUE, map |-> << >>]

UsedStats == [given |-> TRUE, map |-> [key \in {"tol", "user"} |-> <<7, 1>>]]

\* the arguments that have a default, and the calls that are checked: those
\* that give one of them another value, or one of the pairs below.
\* (verbatim only prints, and is left at its default.)
Optional == { "batched", "state", "tol", "reinitialize", "forcing", "time",
              "stats", "callback" }

Pairs == { {"stats", "tol"}, {"forcing", "time"}, {"forcing", "callback"},
           {"batched", "tol"}, {"batched", "callback"}, {"reinitialize", "tol"} }

Chosen == { fs \in SUBSET Optional : Cardinality(fs) <= 1 } \cup Pairs

\* the calls whose Hamiltonian varies: those that leave alone what only
\* observes the integration
Hamiltonians(fs) ==
    IF fs \in { {}, {"batched"}, {"state"}, {"tol"}, {"reinitialize"} }
    THEN {"varying"}
    ELSE IF "batched" \in fs THEN {"P", "B", "PB"} ELSE {"P", "B"}

TimeArgs(fs) ==
    IF "time" \notin fs THEN { [time |-> NoTime, takes |-> FALSE] }
    ELSE IF "forcing" \in fs THEN { [time |-> <<1>>, takes |-> TRUE] }
    ELSE { [time |-> <<0>>, takes |-> TRUE], [time |-> <<1>>, takes |-> TRUE],
           [time |-> <<-2>>, takes |-> TRUE], [time |-> <<1>>, takes |-> FALSE],
           [time |-> NoTime, takes |-> TRUE] }

Args(fs) ==
    [ batched : {"batched" \in fs},
      nsys : IF "batched" \in fs THEN 1..MaxBatch ELSE {1},
      other : {"state" \in fs},
      hamiltonian : Hamiltonians(fs),
      stepsize : {0, 2}, steps : 0..MaxSteps, minit : 0..MaxIt, maxit : 0..MaxIt,
      tol : IF "tol" \in fs THEN { x \in Tols : ~x.auto } ELSE { x \in Tols : x.auto },
      reinitialize : {"reinitialize" \in fs},
      forcing : IF "forcing" \notin fs THEN {"none"}
                ELSE IF "time" \in fs THEN {"time"} ELSE {"auto"},
      timing : TimeArgs(fs),
      stats : IF "stats" \in fs THEN {EmptyStats, UsedStats} ELSE {NoStats},
      callback : {"callback" \in fs} ]

\* ------------------------------------------------------------ the state
VARIABLES arg, pc, err, state, dstate, Pstatecomm, BThetacomm, FW, hasnan,
          time, tol, stats, k, i, broke, resnorm, resnorm_old, resnormvec,
          resnormvec_old, total_iterations, number_of_maxit,
          hist, seen, log, hamArg, calls

vars == << arg, pc, err, state, dstate, Pstatecomm, BThetacomm, FW, hasnan,
           time, tol, stats, k, i, broke, resnorm, resnorm_old, resnormvec,
           resnormvec_old, total_iterations, number_of_maxit,
           hist, seen, log, hamArg, calls >>

scratch == << dstate, Pstatecomm, BThetacomm, FW, hasnan >>

itervars == << i, broke, resnorm, resnorm_old, resnormvec, resnormvec_old >>

NoCall == [called |-> FALSE, timed |-> FALSE, t |-> 0]

NoVec == << >>

Init ==
    /\ \E fs \in Chosen : arg \in Args(fs)
    /\ pc = "start"
    /\ err = "none"
    /\ state = IF arg.other THEN OtherState(arg.nsys) ELSE DefaultState(arg.nsys)
    /\ dstate = StZero(arg.nsys)
    /\ Pstatecomm = StZero(arg.nsys)
    /\ BThetacomm = ArrZero(arg.nsys)
    /\ FW = StZero(arg.nsys)
    /\ hasnan = FALSE
    /\ time = arg.timing.time
    /\ tol = [num |-> arg.tol.val, den |-> 1]
    /\ stats = arg.stats
    /\ k = 0
    /\ i = 0
    /\ broke = FALSE
    /\ resnorm = Inf
    /\ resnorm_old = Inf
    /\ resnormvec = NoVec
    /\ resnormvec_old = NoVec
    /\ total_iterations = 0
    /\ number_of_maxit = 0
    /\ hist = << state >>
    /\ seen = << >>
    /\ log = << >>
    /\ hamArg = NoCall
    /\ calls = [ham |-> 0, force |-> 0, cb |-> 0]

\* -------------------------------------------------- pieces of the code
\* a variant that lets maxit < minit through; C5_PreconditionFailure tells it apart
PreconditionsHold_MinitOnly(mn, mx) == mn >= 1

\* lines 81-82: the two assertions on the iteration limits
PreconditionsHold(mn, mx) == mn >= 1 /\ mx >= mn

\* lines 93-95: the Hamiltonian is called with a time argument only when
\* time is not None and it declares one
Autonomous(t, takes) == ~(t # NoTime /\ takes)

\* "if stats:", the truth value of a dict or of None
Truthy(st) == st.given /\ DOMAIN st.map # {}

\* "if time:", the truth value of a number or of None
TimeTruthy(t) == t # NoTime /\ t[1] # 0

\* a variant with a half step that is never zero; C7_ZeroStep tells it apart
HHalf_NonZero(stepsize) == (stepsize + 2) \div 2

\* line 109
HHalf(stepsize) == stepsize \div 2

\* lines 113-119: the tolerance, as the fraction num/den.  sqrt(eps) of
\* float64 is 2^-26.
ResolveTol(ta, stepsize, st) ==
    IF ta.auto \/ ta.val < 0
    THEN [num |-> stepsize * norm_inf(st[1][1]), den |-> SqrtEpsInv]
    ELSE [num |-> ta.val, den |-> 1]

\* r <= tol for an integer r and tol = num/den >= 0
LeqTol(r, tl) == r <= tl.num \div tl.den

SetKey(m, key, v) == [x \in DOMAIN m \cup {key} |-> IF x = key THEN v ELSE m[x]]

\* lines 122-123
StatsTol(st, ta, tl) ==
    IF (ta.auto \/ ta.val < 0) /\ Truthy(st)
    THEN [st EXCEPT !.map = SetKey(st.map, "tol", <<tl.num, tl.den>>)]
    ELSE st

\* lines 228-230
StatsFinal(st, total, nmax, steps) ==
    IF Truthy(st)
    THEN [st EXCEPT !.map = SetKey(SetKey(st.map, "iterations", <<total, steps>>),
                                   "maxit", <<nmax, steps>>)]
    ELSE st

\* a variant that carries the residual over from the previous step;
\* C9_StopRule tells it apart
StepResnorm_Kept(old) == old

\* lines 129-131: what a step starts from
StepResnorm(old) == Inf

StepDstate(reinit, d, n) == IF reinit THEN StZero(n) ELSE d

\* a variant that checks the residual from the first iteration on;
\* C1_IterationBounds tells it apart
TimeToCheck_Always(it, mn) == it + 1 >= 1

\* line 183
TimeToCheck(it, mn) == it + 1 >= mn

\* lines 186-194: the norms of dstate_old - dstate, one per component and
\* system, and the residual taken from them
ResVec(dold, d) == Tup([c \in Comps |-> Tup([s \in DOMAIN d[c] |-> norm_axes(MatSub(dold[c][s], d[c][s]))])])

VecMax(v) == MaxTo(Tup([c \in Comps |-> MaxTo(v[c], Len(v[c]))]), 2)

\* a variant that takes the first system's W residual in a batch too;
\* C8_MaxGoverns tells it apart
Residual_First(batched, v) == v[1][1]

Residual(batched, v) == IF batched THEN VecMax(v) ELSE v[1][1]

\* line 195; resnorm_old is np.inf at the first check of a step
GeqOld(r, old) == old # Inf /\ r >= old

Stop(r, old, tl) == LeqTol(r, tl) \/ GeqOld(r, old)

\* a variant of the pass below that leaves out conj_subtract_ on Pstatecomm;
\* C6_SkewPreserved tells it apart
Pass_NoConjSubtract(st, d, hh, hp, batched) ==
    LET statehalf == StAdd(st, d)
        Phalf == Tup([s \in DOMAIN hp |-> MatScale(hh, hp[s][1])])
        Bhalf == Tup([s \in DOMAIN hp |-> MatScale(hh, hp[s][2])])
        PS == Tup([c \in Comps |-> ArrMul(Phalf, statehalf[c])])
        BT == ArrMul(Bhalf, statehalf[2])
        d1 == Tup([c \in Comps |-> ArrMul(PS[c], Phalf)])
        BTP == ArrMul(BT, Phalf)
        BTc == ArrConjSub(BT)
        d2 == StAdd(d1, PS)
        dW == ArrAdd(ArrSub(ArrAdd(d2[1], BTP), TConj(BTP, batched)), BTc)
    IN  [dstate |-> << dW, d2[2] >>,
         Pstatecomm |-> PS, BThetacomm |-> BTc]

\* lines 140-171: one pass of the fixed-point map, for the Hamiltonian's
\* answer hp (a pair <<P, B>> per system)
Pass(st, d, hh, hp, batched) ==
    LET statehalf == StAdd(st, d)
        Phalf == Tup([s \in DOMAIN hp |-> MatScale(hh, hp[s][1])])
        Bhalf == Tup([s \in DOMAIN hp |-> MatScale(hh, hp[s][2])])
        PS == Tup([c \in Comps |-> ArrMul(Phalf, statehalf[c])])
        BT == ArrMul(Bhalf, statehalf[2])
        d1 == Tup([c \in Comps |-> ArrMul(PS[c], Phalf)])
        PSc == Tup([c \in Comps |-> ArrConjSub(PS[c])])
        BTP == ArrMul(BT, Phalf)
        BTc == ArrConjSub(BT)
        d2 == StAdd(d1, PSc)
        dW == ArrAdd(ArrSub(ArrAdd(d2[1], BTP), TConj(BTP, batched)), BTc)
    IN  [dstate |-> << dW, d2[2] >>,
         Pstatecomm |-> PSc, BThetacomm |-> BTc]

\* lines 176-179: the forcing's answer F, scaled
ScaledForce(F, hh, n) == Tup([c \in Comps |-> Tup([s \in Sys(n) |-> MatScale(hh * hb, F)])])

\* a variant that hands the callback the updated state; C2_CallbackTiming
\* tells it apart
CallbackState_After(st, nst) == nst

\* line 212: the state the callback is handed
CallbackState(st, nst) == st

\* lines 207-219: the state after the step
NextState(st, psc, btc, fw, forced) ==
    LET a == StAdd(st, StScale(2, psc))
        b == Tup([c \in Comps |-> IF c = 1 THEN ArrAdd(a[c], ArrScale(2, btc)) ELSE a[c]])
    IN  IF forced THEN StAdd(b, StScale(2, fw)) ELSE b

\* lines 221-222
NextTime(t, stepsize) == IF TimeTruthy(t) THEN << t[1] + stepsize >> ELSE t

\* ---------------------------------------------------------- the actions
\* lines 80-123: the checks, the scratch buffers, the tolerance
Enter ==
    /\ pc = "start"
    /\ IF ~PreconditionsHold(arg.minit, arg.maxit)
       THEN /\ pc' = "error"
            /\ err' = "AssertionError"
            /\ UNCHANGED << tol, stats >>
       ELSE /\ pc' = "loop"
            /\ err' = "none"
            /\ tol' = ResolveTol(arg.tol, arg.stepsize, state)
            /\ stats' = StatsTol(stats, arg.tol, tol')
    /\ UNCHANGED << arg, state, scratch, time, k, itervars, total_iterations,
                    number_of_maxit, hist, seen, log, hamArg, calls >>

\* lines 126-131: the head of the step loop
BeginStep ==
    /\ pc = "loop"
    /\ k < arg.steps
    /\ pc' = "iter"
    /\ resnorm' = StepResnorm(resnorm)
    /\ resnorm_old' = resnorm_old
    /\ resnormvec' = NoVec
    /\ resnormvec_old' = NoVec
    /\ dstate' = StepDstate(arg.reinitialize, dstate, arg.nsys)
    /\ i' = 0
    /\ broke' = FALSE
    /\ hamArg' = NoCall
    /\ UNCHANGED << arg, err, state, Pstatecomm, BThetacomm, FW, hasnan, time, tol,
                    stats, k, total_iterations, number_of_maxit, hist, seen, log, calls >>

\* what the forcing may answer in a pass: nothing is asked without a
\* forcing; with stepsize = 0 its argument Phalf/hhalf is 0/0 = nan in
\* every entry, and an answer that depends on it holds nan
ForceAnswers(a) == IF a.forcing = "none" THEN {Zero} ELSE ForceOut

NanAnswers(a) == IF a.forcing # "none" /\ HHalf(a.stepsize) = 0 THEN BOOLEAN ELSE {FALSE}

\* a variant that counts every step; C10_MaxitCount tells it apart
CountMaxit_Every(brk, n) == n + 1

\* lines 198-200: the else branch of the iteration loop
CountMaxit(brk, n) == IF brk THEN n ELSE n + 1

\* lines 148-151: how the Hamiltonian is called, and with which time
HamCall(t0, takes, t, hh) ==
    [called |-> TRUE, timed |-> ~Autonomous(t0, takes),
     t |-> IF ~Autonomous(t0, takes) THEN t[1] + hh ELSE 0]

\* lines 134-196: one iteration of the inner loop
Iterate ==
    /\ pc = "iter"
    /\ i < arg.maxit
    /\ total_iterations' = total_iterations + 1
    /\ hamArg' = HamCall(arg.timing.time, arg.timing.takes, time, HHalf(arg.stepsize))
    /\ \E hp \in HamOut(arg), F \in ForceAnswers(arg), nanF \in NanAnswers(arg) :
       IF ~TFits(arg.batched, arg.nsys)
       THEN \* line 170 raises: the operands do not broadcast
            /\ pc' = "error"
            /\ err' = "ValueError"
            /\ calls' = [calls EXCEPT !.ham = @ + 1]
            /\ UNCHANGED << scratch, itervars >>
       ELSE IF hasnan \/ nanF
       THEN \* nan in the increment: scipy.linalg.norm (line 188) raises
            \* once the residual is asked for
            /\ hasnan' = TRUE
            /\ calls' = [calls EXCEPT !.ham = @ + 1, !.force = @ + 1]
            /\ pc' = IF TimeToCheck(i, arg.minit) THEN "error" ELSE "iter"
            /\ err' = IF TimeToCheck(i, arg.minit) THEN "ValueError" ELSE err
            /\ i' = i + 1
            /\ UNCHANGED << dstate, Pstatecomm, BThetacomm, FW, broke, resnorm,
                            resnorm_old, resnormvec, resnormvec_old >>
       ELSE \E hh \in {HHalf(arg.stepsize)} :
            \E p \in {Pass(state, dstate, hh, hp, arg.batched)} :
            \E fw \in {ScaledForce(F, hh, arg.nsys)} :
            \E d \in {IF arg.forcing # "none" THEN StAdd(p.dstate, fw) ELSE p.dstate} :
            \E vec \in {ResVec(dstate, d)} :
            \E res \in {Residual(arg.batched, vec)} :
            LET forced == arg.forcing # "none"
                check == TimeToCheck(i, arg.minit)
                stop == check /\ Stop(res, resnorm, tol)
            IN  /\ dstate' = d
                /\ Pstatecomm' = p.Pstatecomm
                /\ BThetacomm' = p.BThetacomm
                /\ FW' = IF forced THEN fw ELSE FW
                /\ hasnan' = FALSE
                /\ calls' = [calls EXCEPT !.ham = @ + 1,
                                          !.force = IF forced THEN @ + 1 ELSE @]
                /\ i' = i + 1
                /\ resnorm' = IF check THEN res ELSE resnorm
                /\ resnorm_old' = IF check THEN resnorm ELSE resnorm_old
                /\ resnormvec' = IF check THEN vec ELSE resnormvec
                /\ resnormvec_old' = IF check THEN resnormvec ELSE resnormvec_old
                /\ broke' = stop
                /\ pc' = IF stop \/ i + 1 = arg.maxit THEN "endstep" ELSE "iter"
                /\ err' = err
    /\ UNCHANGED << arg, state, time, tol, stats, k, number_of_maxit, hist, seen, log >>

\* lines 198-222: the end of a step
EndStep ==
    /\ pc = "endstep"
    /\ LET forced == arg.forcing # "none"
       IN  /\ number_of_maxit' = CountMaxit(broke, number_of_maxit)
           /\ Pstatecomm' = StScale(2, Pstatecomm)
           /\ BThetacomm' = ArrScale(2, BThetacomm)
           /\ FW' = IF forced THEN StScale(2, FW) ELSE FW
           /\ state' = NextState(state, Pstatecomm, BThetacomm, FW, forced)
           /\ seen' = IF arg.callback THEN Append(seen, CallbackState(state, state'))
                      ELSE seen
           /\ calls' = [calls EXCEPT !.cb = IF arg.callback THEN @ + 1 ELSE @]
    /\ time' = NextTime(time, arg.stepsize)
    /\ k' = k + 1
    /\ hist' = Append(hist, state')
    /\ log' = Append(log, [its |-> i, checked |-> i >= arg.minit,
                           stop |-> Stop(resnorm, resnorm_old, tol)])
    /\ pc' = "loop"
    /\ UNCHANGED << arg, err, dstate, hasnan, tol, stats, itervars,
                    total_iterations, hamArg >>

\* lines 226-232: the statistics and the return
Return ==
    /\ pc = "loop"
    /\ k >= arg.steps
    /\ IF arg.steps = 0 /\ Truthy(stats)
       THEN \* total_iterations/steps divides by zero
            /\ pc' = "error"
            /\ err' = "ZeroDivisionError"
            /\ stats' = stats
       ELSE /\ pc' = "done"
            /\ err' = err
            /\ stats' = StatsFinal(stats, total_iterations, number_of_maxit, arg.steps)
    /\ UNCHANGED << arg, state, scratch, time, tol, k, itervars, total_iterations,
                    number_of_maxit, hist, seen, log, hamArg, calls >>

Next == Enter \/ BeginStep \/ Iterate \/ EndStep \/ Return

Spec == Init /\ [][Next]_vars

TypeOK ==
    /\ pc \in {"start", "loop", "iter", "endstep", "done", "error"}
    /\ err \in {"none", "AssertionError", "ValueError", "ZeroDivisionError"}
    /\ (pc = "error") = (err # "none")
    /\ pc = "endstep" => ~hasnan

\* ------------------------------------------------------------ the claims
Running == pc \in {"iter", "endstep"}

\* the residual of one system: the larger of its W and Theta residuals
SysRes(v, s) == Max2(v[1][s], v[2][s])

\* C1: in every step the inner loop runs at least minit and at most maxit
\* iterations, whatever the residuals are.
C1_IterationBounds ==
    /\ pc = "iter" => i < arg.maxit
    /\ pc = "endstep" => arg.minit <= i /\ i <= arg.maxit
    /\ \A n \in 1..Len(log) : arg.minit <= log[n].its /\ log[n].its <= arg.maxit

\* a step with minit >= 2 whose residual is within tol at its first check
C1_Witness ==
    /\ pc = "endstep" /\ broke
    /\ arg.minit >= 2 /\ i = arg.minit
    /\ LeqTol(resnorm, tol)

\* C2: a callback is invoked once per step, before that step's update: the
\* n-th invocation sees the state after n-1 completed steps, and none follows
\* the last update.
C2_CallbackTiming ==
    /\ Len(hist) = k + 1
    /\ Len(seen) = IF arg.callback THEN k ELSE 0
    /\ calls.cb = Len(seen)
    /\ \A n \in 1..Len(seen) : seen[n] = hist[n]

C2_Witness ==
    /\ arg.callback /\ pc = "done"
    /\ Len(seen) = 2 /\ seen[2] # seen[1] /\ state # seen[2]

\* C3: with time given and a Hamiltonian that takes it, every evaluation of
\* step n gets time0 + (n-1)*stepsize + stepsize/2.
C3_TimeAdvances ==
    (Running /\ hamArg.called /\ arg.timing.time # NoTime /\ arg.timing.takes)
        => /\ hamArg.timed
           /\ hamArg.t = arg.timing.time[1] + k * arg.stepsize + HHalf(arg.stepsize)

\* C4: a stats mapping given to a call of one step or more holds, on return,
\* the two averages and, when tol was "auto" or negative, the tolerance.
C4_StatsFilled ==
    (pc = "done" /\ arg.stats.given /\ arg.steps >= 1)
        => /\ {"iterations", "maxit"} \subseteq DOMAIN stats.map
           /\ stats.map["iterations"] = << total_iterations, arg.steps >>
           /\ stats.map["maxit"] = << number_of_maxit, arg.steps >>
           /\ (arg.tol.auto \/ arg.tol.val < 0)
                => /\ "tol" \in DOMAIN stats.map
                   /\ stats.map["tol"] = << tol.num, tol.den >>

\* C5: with minit < 1 or maxit < minit the call fails at once: nothing is
\* called, and the state and the stats are as they were.
C5_PreconditionFailure ==
    ((arg.minit < 1 \/ arg.maxit < arg.minit) /\ pc # "start")
        => /\ pc = "error" /\ err = "AssertionError"
           /\ calls = [ham |-> 0, force |-> 0, cb |-> 0]
           /\ hist = << state >>
           /\ stats = arg.stats
           /\ total_iterations = 0

C5_Witness ==
    /\ pc = "error" /\ err = "AssertionError"
    /\ arg.minit >= 1 /\ arg.maxit < arg.minit
    /\ arg.stats.given

\* C6: without forcing, W and Theta are skew-Hermitian after every step.
C6_SkewPreserved ==
    arg.forcing = "none" => \A n \in 1..Len(hist) : StSkew(hist[n])

\* two steps that changed the state, one ended by the stopping test and one
\* by maxit, with an increment estimate that is not skew
C6_Witness ==
    /\ arg.forcing = "none" /\ Len(hist) = 3
    /\ hist[2] # hist[1] /\ hist[3] # hist[2]
    /\ log[1].stop # log[2].stop
    /\ ~StSkew(dstate)

\* C7: with stepsize = 0 the state is never changed.
C7_ZeroStep ==
    arg.stepsize = 0 => \A n \in 1..Len(hist) : hist[n] = hist[1]

C7_Witness ==
    /\ arg.stepsize = 0 /\ arg.forcing # "none" /\ pc = "done"
    /\ Len(hist) = 3 /\ calls.force >= 2

\* C8, as claimed: in a batched call the inner loop ends before maxit
\* iterations only when every system meets its own criterion (its residual
\* <= tol, or >= its own previous residual).
C8_EverySystemStops ==
    (arg.batched /\ pc = "endstep" /\ broke /\ i < arg.maxit)
        => \A s \in Sys(arg.nsys) :
              \/ LeqTol(SysRes(resnormvec, s), tol)
              \/ /\ resnormvec_old # NoVec
                 /\ SysRes(resnormvec, s) >= SysRes(resnormvec_old, s)

\* C8, amended: the shared test uses the largest residual over all systems
\* and both components; the loop ends before maxit only when that maximum is
\* <= tol (so every system's residual is), or is >= the previous maximum.
C8_MaxGoverns ==
    (arg.batched /\ Running /\ i >= arg.minit)
        => /\ resnorm = VecMax(resnormvec)
           /\ \A s \in Sys(arg.nsys) : SysRes(resnormvec, s) <= resnorm
           /\ (i > arg.minit) => resnorm_old = VecMax(resnormvec_old)
           /\ (pc = "endstep" /\ broke)
                => \/ \A s \in Sys(arg.nsys) : LeqTol(SysRes(resnormvec, s), tol)
                   \/ /\ i > arg.minit
                      /\ VecMax(resnormvec) >= VecMax(resnormvec_old)

\* the loop ended before maxit on the maximum, a system still converging
C8_Witness ==
    /\ arg.batched /\ pc = "endstep" /\ broke /\ i < arg.maxit
    /\ \E s \in Sys(arg.nsys) :
          /\ ~LeqTol(SysRes(resnormvec, s), tol)
          /\ SysRes(resnormvec, s) < SysRes(resnormvec_old, s)

\* C9: the loop ends at the first iteration i >= minit with residual <= tol or
\* residual >= the residual of the previous check of the same step; no
\* residual is computed before minit, and the first check of a step compares
\* with +infinity, so it ends the loop only through residual <= tol.
C9_StopRule ==
    /\ (Running /\ i < arg.minit) => resnormvec = NoVec /\ resnorm = Inf
    /\ (Running /\ i = arg.minit /\ ~hasnan) => resnorm_old = Inf
    /\ (Running /\ i > arg.minit) =>
          resnorm_old = (IF arg.batched THEN VecMax(resnormvec_old)
                         ELSE resnormvec_old[1][1])
    /\ (pc = "endstep" /\ broke) =>
          /\ i >= arg.minit
          /\ LeqTol(resnorm, tol) \/ (i > arg.minit /\ resnorm >= resnorm_old)
    /\ (pc = "endstep" /\ ~broke) => i = arg.maxit
    /\ (Running /\ ~broke /\ i >= arg.minit /\ ~hasnan) =>
          ~(LeqTol(resnorm, tol) \/ (i > arg.minit /\ resnorm >= resnorm_old))

\* a later step ended at its second check because the residual grew
C9_Witness ==
    /\ pc = "endstep" /\ broke /\ k >= 1
    /\ i = arg.minit + 1
    /\ ~LeqTol(resnorm, tol) /\ resnorm >= resnorm_old

\* C10: number_of_maxit counts the steps that ran maxit iterations with no
\* stopping condition met (a step that stops at iteration maxit is not one);
\* such a step updates the state and calls the callback like any other, and
\* the integration goes on to the last step.
C10_MaxitCount ==
    /\ Len(log) = k
    /\ number_of_maxit =
          Cardinality({ n \in 1..Len(log) : log[n].its = arg.maxit /\ ~log[n].stop })
    /\ Len(hist) = Len(log) + 1
    /\ arg.callback => calls.cb = Len(log)
    /\ pc = "done" => k = arg.steps
    /\ (pc = "loop" /\ k < arg.steps) => ENABLED BeginStep

C10_Witness ==
    /\ pc = "done" /\ arg.steps = 2 /\ number_of_maxit = 1
    /\ log[1].its = arg.maxit /\ ~log[1].stop
    /\ log[2].its = arg.maxit /\ log[2].stop
    /\ hist[2] # hist[1] /\ hist[3] # hist[2]
====
